---- MODULE Spec2Model ----
(***************************************************************************)
(* A model of the Go board engine of src/lib/goban.rs (struct Goban).      *)
(* The state is the struct's fields.  Every method is an operator from the *)
(* struct (and the method's arguments) to the struct it leaves behind,     *)
(* translated statement by statement; there is one action per public       *)
(* mutating method, which applies that operator to the current state.      *)
(* A second specification, SpecLoop, runs process_captures one iteration   *)
(* of its work-list loop at a time.                                        *)
(***************************************************************************)
EXTENDS Integers, Sequences, FiniteSets, TLC

VARIABLES size, stones, move_number, black_captures, white_captures, ret, frame

vars == <<size, stones, move_number, black_captures, white_captures, ret, frame>>

(***************************************************************************)
(* Bounds of the model.                                                    *)
(***************************************************************************)
\* Boards the model creates (the argument of Goban::new): every board up to
\* 2x2, on which the callers' coordinates cover the whole board; a board of
\* width 0; the three boards that have star points, two that have none, and a
\* board of the largest width a u8 holds.
SmallBoardSizes == {<<1, 1>>, <<2, 1>>, <<1, 2>>, <<2, 2>>, <<0, 1>>}

LargeBoardSizes ==
    {<<9, 9>>, <<13, 13>>, <<19, 19>>, <<10, 10>>, <<9, 13>>, <<255, 1>>}

BoardSizes == SmallBoardSizes \cup LargeBoardSizes

\* A played move is explored only while both tallies together stay <= MaxCaptures.
MaxCaptures == 3

\* A played move is explored only while move_number < MaxMoveNumber.
MaxMoveNumber == 1

(***************************************************************************)
(* Types                                                                   *)
(***************************************************************************)
Black == "Black"
White == "White"
StoneColor == {Black, White}

Ok == "Ok"
InvalidMoveError == "InvalidMoveError"

\* The call did not return: an arithmetic overflow check of the build ended it.
Panic == "Panic"

\* No process_captures call is in flight.
Idle == << >>

U8 == 256

\* The points of the board.
BoardPoints == {<<x, y>> : x \in 0..(size[1] - 1), y \in 0..(size[2] - 1)}

\* Coordinates the callers hand in.  On a small board: every point of the
\* board, a point whose x is the width and one beyond it and, except on 2x2
\* (where they would only multiply the boards), a point whose y is the height
\* and one beyond it.  On 9x9: the centre and its four neighbours.  On the
\* other large boards: a corner, an edge point next to it and the point (3, 3).
ArgPoints ==
    IF size \in SmallBoardSizes
    THEN BoardPoints
           \cup {<<size[1], 0>>, <<size[1] + 1, 0>>}
           \cup (IF size = <<2, 2>>
                 THEN {}
                 ELSE {<<0, size[2]>>, <<0, size[2] + 1>>})
    ELSE IF size = <<9, 9>>
         THEN {<<4, 4>>, <<3, 4>>, <<5, 4>>, <<4, 3>>, <<4, 5>>}
         ELSE {<<0, 0>>, <<0, 1>>, <<3, 3>>}

Stone(x, y, color) == [x |-> x, y |-> y, color |-> color]

ArgStones == {Stone(p[1], p[2], c) : p \in ArgPoints, c \in StoneColor}

\* The mutable fields of the struct, as the methods receive them in self.
Self ==
    [stones |-> stones,
     move_number |-> move_number,
     black_captures |-> black_captures,
     white_captures |-> white_captures]

(***************************************************************************)
(* Goban::hoshi_points: the constant table the match on self.size selects, *)
(* in the table's order.                                                   *)
(***************************************************************************)
DEFAULT_HOSHIS == << >>

NINE_HOSHIS == << <<2, 2>>, <<2, 6>>, <<6, 2>>, <<6, 6>> >>

THIRTEEN_HOSHIS == << <<3, 3>>, <<3, 9>>, <<6, 6>>, <<9, 3>>, <<9, 9>> >>

NINETEEN_HOSHIS ==
    << <<3, 3>>, <<3, 9>>, <<3, 15>>,
       <<9, 3>>, <<9, 9>>, <<9, 15>>,
       <<15, 3>>, <<15, 9>>, <<15, 15>> >>

\* hoshi_points that matches on the width alone.
hoshi_points_by_width ==
    CASE size[1] = 9 -> NINE_HOSHIS
      [] size[1] = 13 -> THIRTEEN_HOSHIS
      [] size[1] = 19 -> NINETEEN_HOSHIS
      [] OTHER -> DEFAULT_HOSHIS

hoshi_points ==
    CASE size = <<9, 9>> -> NINE_HOSHIS
      [] size = <<13, 13>> -> THIRTEEN_HOSHIS
      [] size = <<19, 19>> -> NINETEEN_HOSHIS
      [] OTHER -> DEFAULT_HOSHIS

(***************************************************************************)
(* Goban::neighbors: the vector the code builds, in its push order.  The   *)
(* subtraction size - 1 is a u8 subtraction.                               *)
(***************************************************************************)
\* neighbors with the two upper tests written against size instead of size - 1.
neighbors_upto_size(point) ==
    LET x == point[1]
        y == point[2]
    IN  (IF x < size[1] THEN << <<x + 1, y>> >> ELSE << >>)
        \o (IF x > 0 THEN << <<x - 1, y>> >> ELSE << >>)
        \o (IF y < size[2] THEN << <<x, y + 1>> >> ELSE << >>)
        \o (IF y > 0 THEN << <<x, y - 1>> >> ELSE << >>)

\* neighbors with the two lower tests written against 1 instead of 0.
neighbors_above_one(point) ==
    LET x == point[1]
        y == point[2]
    IN  (IF x < (size[1] - 1) % U8 THEN << <<x + 1, y>> >> ELSE << >>)
        \o (IF x > 1 THEN << <<x - 1, y>> >> ELSE << >>)
        \o (IF y < (size[2] - 1) % U8 THEN << <<x, y + 1>> >> ELSE << >>)
        \o (IF y > 1 THEN << <<x, y - 1>> >> ELSE << >>)

neighbors(point) ==
    LET x == point[1]
        y == point[2]
    IN  (IF x < (size[1] - 1) % U8 THEN << <<x + 1, y>> >> ELSE << >>)
        \o (IF x > 0 THEN << <<x - 1, y>> >> ELSE << >>)
        \o (IF y < (size[2] - 1) % U8 THEN << <<x, y + 1>> >> ELSE << >>)
        \o (IF y > 0 THEN << <<x, y - 1>> >> ELSE << >>)

\* One of the u8 computations of neighbors(point) leaves 0..255: size - 1 is
\* computed for either dimension, x + 1 and y + 1 where the test before them
\* passes.  A build with overflow checks panics there; a build without them
\* wraps, as neighbors above does.
neighbors_overflow(point) ==
    LET x == point[1]
        y == point[2]
    IN  \/ size[1] - 1 < 0
        \/ x < (size[1] - 1) % U8 /\ x + 1 >= U8
        \/ size[2] - 1 < 0
        \/ y < (size[2] - 1) % U8 /\ y + 1 >= U8

(***************************************************************************)
(* Goban::process_captures                                                 *)
(***************************************************************************)
\* An iteration that does not insert the popped point into group.
Iterate_no_insert(st, group_color, group, to_process) ==
    LET n    == Len(to_process)
        p    == to_process[n]
        rest == SubSeq(to_process, 1, n - 1)
        nbrs == SelectSeq(neighbors(p), LAMBDA q : q \notin group)
    IN  [popped     |-> p,
         group      |-> group,
         liberty    |-> \E i \in 1..Len(nbrs) : nbrs[i] \notin DOMAIN st,
         to_process |-> rest \o SelectSeq(nbrs, LAMBDA q : q \in DOMAIN st
                                                          /\ st[q] = group_color)]

\* An iteration that pushes no neighbour: the loop ends with the start point.
Iterate_start_only(st, group_color, group, to_process) ==
    LET n    == Len(to_process)
        p    == to_process[n]
        rest == SubSeq(to_process, 1, n - 1)
        grp  == group \cup {p}
        nbrs == SelectSeq(neighbors(p), LAMBDA q : q \notin grp)
    IN  [popped     |-> p,
         group      |-> grp,
         liberty    |-> \E i \in 1..Len(nbrs) : nbrs[i] \notin DOMAIN st,
         to_process |-> rest]

\* One iteration of the while-let loop: pop the back of to_process, insert
\* it into group, scan its neighbours.  A neighbour in group is skipped; an
\* absent one returns at once (liberty |-> TRUE); one of the group's colour is
\* pushed.
Iterate(st, group_color, group, to_process) ==
    LET n    == Len(to_process)
        p    == to_process[n]
        rest == SubSeq(to_process, 1, n - 1)
        grp  == group \cup {p}
        nbrs == SelectSeq(neighbors(p), LAMBDA q : q \notin grp)
    IN  [popped     |-> p,
         group      |-> grp,
         liberty    |-> \E i \in 1..Len(nbrs) : nbrs[i] \notin DOMAIN st,
         to_process |-> rest \o SelectSeq(nbrs, LAMBDA q : q \in DOMAIN st
                                                          /\ st[q] = group_color)]

\* The loop, run until it returns or to_process is empty; pops lists the
\* points in the order pop_back yielded them.
RECURSIVE Traverse(_, _, _, _)
Traverse(st, group_color, group, to_process) ==
    IF to_process = << >>
    THEN [liberty |-> FALSE, group |-> group, pops |-> << >>]
    ELSE LET it == Iterate(st, group_color, group, to_process)
         IN  IF it.liberty
             THEN [liberty |-> TRUE, group |-> it.group, pops |-> <<it.popped>>]
             ELSE LET t == Traverse(st, group_color, it.group, it.to_process)
                  IN  [t EXCEPT !.pops = <<it.popped>> \o @]

\* HashMap::remove of every key in group.
Remove(st, group) == [q \in (DOMAIN st) \ group |-> st[q]]

\* process_captures that assigns the group's size to the tally instead of
\* adding it.
process_captures_assigns_tally(self, start_point) ==
    IF start_point \notin DOMAIN self.stones
    THEN self
    ELSE LET group_color == self.stones[start_point]
             t == Traverse(self.stones, group_color, {}, <<start_point>>)
         IN  IF t.liberty
             THEN self
             ELSE [self EXCEPT
                     !.black_captures =
                         IF group_color = Black THEN Cardinality(t.group) ELSE @,
                     !.white_captures =
                         IF group_color = White THEN Cardinality(t.group) ELSE @,
                     !.stones = Remove(@, t.group)]

\* process_captures that counts one capture for a removed group, whatever
\* its size.
process_captures_counts_groups(self, start_point) ==
    IF start_point \notin DOMAIN self.stones
    THEN self
    ELSE LET group_color == self.stones[start_point]
             t == Traverse(self.stones, group_color, {}, <<start_point>>)
         IN  IF t.liberty
             THEN self
             ELSE [self EXCEPT
                     !.black_captures = IF group_color = Black THEN @ + 1 ELSE @,
                     !.white_captures = IF group_color = White THEN @ + 1 ELSE @,
                     !.stones = Remove(@, t.group)]

\* process_captures that leaves the start point's stone in the map.
process_captures_keeps_start(self, start_point) ==
    IF start_point \notin DOMAIN self.stones
    THEN self
    ELSE LET group_color == self.stones[start_point]
             t == Traverse(self.stones, group_color, {}, <<start_point>>)
         IN  IF t.liberty
             THEN self
             ELSE [self EXCEPT
                     !.black_captures =
                         IF group_color = Black THEN @ + Cardinality(t.group) ELSE @,
                     !.white_captures =
                         IF group_color = White THEN @ + Cardinality(t.group) ELSE @,
                     !.stones = Remove(@, t.group \ {start_point})]

\* process_captures with the two arms of the tally match exchanged.
process_captures_credits_capturer(self, start_point) ==
    IF start_point \notin DOMAIN self.stones
    THEN self
    ELSE LET group_color == self.stones[start_point]
             t == Traverse(self.stones, group_color, {}, <<start_point>>)
         IN  IF t.liberty
             THEN self
             ELSE [self EXCEPT
                     !.black_captures =
                         IF group_color = White THEN @ + Cardinality(t.group) ELSE @,
                     !.white_captures =
                         IF group_color = Black THEN @ + Cardinality(t.group) ELSE @,
                     !.stones = Remove(@, t.group)]

process_captures(self, start_point) ==
    IF start_point \notin DOMAIN self.stones
    THEN self
    ELSE LET group_color == self.stones[start_point]
             t == Traverse(self.stones, group_color, {}, <<start_point>>)
         IN  IF t.liberty
             THEN self
             ELSE [self EXCEPT
                     !.black_captures =
                         IF group_color = Black THEN @ + Cardinality(t.group) ELSE @,
                     !.white_captures =
                         IF group_color = White THEN @ + Cardinality(t.group) ELSE @,
                     !.stones = Remove(@, t.group)]

(***************************************************************************)
(* Goban::add_stone                                                        *)
(***************************************************************************)
\* HashMap::insert of a new key.
Insert(st, key, color) ==
    [q \in (DOMAIN st) \cup {key} |-> IF q = key THEN color ELSE st[q]]

\* add_stone without the contains_key test: insert replaces the stone.
add_stone_overwrites(self, stone) ==
    IF stone.x > size[1] \/ stone.y > size[2]
    THEN [ret |-> InvalidMoveError, self |-> self]
    ELSE [ret |-> Ok,
          self |-> [self EXCEPT
                      !.stones = Insert(@, <<stone.x, stone.y>>, stone.color)]]

\* add_stone that advances the move counter as a played move does.
add_stone_counts_move(self, stone) ==
    IF stone.x > size[1] \/ stone.y > size[2]
    THEN [ret |-> InvalidMoveError, self |-> self]
    ELSE LET key == <<stone.x, stone.y>>
         IN  IF key \in DOMAIN self.stones
             THEN [ret |-> InvalidMoveError, self |-> self]
             ELSE [ret |-> Ok,
                   self |-> [self EXCEPT !.stones = Insert(@, key, stone.color),
                                         !.move_number = @ + 1]]

\* add_stone that resolves the captures of the new stone's own group.
add_stone_resolves(self, stone) ==
    IF stone.x > size[1] \/ stone.y > size[2]
    THEN [ret |-> InvalidMoveError, self |-> self]
    ELSE LET key == <<stone.x, stone.y>>
         IN  IF key \in DOMAIN self.stones
             THEN [ret |-> InvalidMoveError, self |-> self]
             ELSE [ret |-> Ok,
                   self |-> process_captures(
                                [self EXCEPT !.stones = Insert(@, key, stone.color)],
                                key)]

add_stone(self, stone) ==
    IF stone.x > size[1] \/ stone.y > size[2]
    THEN [ret |-> InvalidMoveError, self |-> self]
    ELSE LET key == <<stone.x, stone.y>>
         IN  IF key \in DOMAIN self.stones
             THEN [ret |-> InvalidMoveError, self |-> self]
             ELSE [ret |-> Ok,
                   self |-> [self EXCEPT !.stones = Insert(@, key, stone.color)]]

(***************************************************************************)
(* Goban::play_stone                                                       *)
(***************************************************************************)
opponent_color(color) == IF color = Black THEN White ELSE Black

\* The for loop over self.neighbors(key): each neighbour that holds an
\* opposing stone when its turn comes is handed to process_captures.
RECURSIVE CaptureNeighbors(_, _, _)
CaptureNeighbors(self, nbrs, opp) ==
    IF nbrs = << >>
    THEN self
    ELSE LET neighbor == Head(nbrs)
             next == IF /\ neighbor \in DOMAIN self.stones
                        /\ self.stones[neighbor] = opp
                     THEN process_captures(self, neighbor)
                     ELSE self
         IN  CaptureNeighbors(next, Tail(nbrs), opp)

\* play_stone that resolves the played point before its opposing neighbours.
play_stone_self_first(self, stone) ==
    LET added == add_stone(self, stone)
    IN  IF added.ret = InvalidMoveError
        THEN added
        ELSE LET key == <<stone.x, stone.y>>
                 s1  == process_captures(added.self, key)
                 s2  == CaptureNeighbors(s1, neighbors(key),
                                         opponent_color(stone.color))
             IN  [ret |-> Ok,
                  self |-> [s2 EXCEPT !.move_number = @ + 1]]

\* play_stone without the final process_captures of the played point.
play_stone_no_self_check(self, stone) ==
    LET added == add_stone(self, stone)
    IN  IF added.ret = InvalidMoveError
        THEN added
        ELSE LET key == <<stone.x, stone.y>>
                 s1  == CaptureNeighbors(added.self, neighbors(key),
                                         opponent_color(stone.color))
             IN  [ret |-> Ok,
                  self |-> [s1 EXCEPT !.move_number = @ + 1]]

\* play_stone that hands only the first neighbour to the capture loop.
play_stone_first_neighbor(self, stone) ==
    LET added == add_stone(self, stone)
    IN  IF added.ret = InvalidMoveError
        THEN added
        ELSE LET key == <<stone.x, stone.y>>
                 nbrs == neighbors(key)
                 s1  == CaptureNeighbors(added.self,
                                         IF nbrs = << >> THEN nbrs ELSE <<Head(nbrs)>>,
                                         opponent_color(stone.color))
                 s2  == process_captures(s1, key)
             IN  [ret |-> Ok,
                  self |-> [s2 EXCEPT !.move_number = @ + 1]]

play_stone(self, stone) ==
    LET added == add_stone(self, stone)
    IN  IF added.ret = InvalidMoveError
        THEN added
        ELSE LET key == <<stone.x, stone.y>>
                 s1  == CaptureNeighbors(added.self, neighbors(key),
                                         opponent_color(stone.color))
                 s2  == process_captures(s1, key)
             IN  [ret |-> Ok,
                  self |-> [s2 EXCEPT !.move_number = @ + 1]]

(***************************************************************************)
(* Goban::clear_point and Goban::set_move_number                           *)
(***************************************************************************)
\* clear_point that counts the stone it removes as a capture of its colour.
clear_point_counts_capture(self, point) ==
    IF point \notin DOMAIN self.stones
    THEN self
    ELSE [self EXCEPT
            !.black_captures = IF self.stones[point] = Black THEN @ + 1 ELSE @,
            !.white_captures = IF self.stones[point] = White THEN @ + 1 ELSE @,
            !.stones = Remove(@, {point})]

clear_point(self, point) == [self EXCEPT !.stones = Remove(@, {point})]

set_move_number(self, num) == [self EXCEPT !.move_number = num]

(***************************************************************************)
(* The state machine: Goban::new, then any sequence of calls.              *)
(***************************************************************************)
Init ==
    /\ size \in BoardSizes
    /\ stones = << >>
    /\ move_number = 0
    /\ black_captures = 0
    /\ white_captures = 0
    /\ ret = Ok
    /\ frame = Idle

\* The call returns r and leaves the struct as self.  No call starts after a
\* panic or while process_captures is in flight.
Return(self, r) ==
    /\ ret # Panic
    /\ frame = Idle
    /\ UNCHANGED frame
    /\ stones' = self.stones
    /\ move_number' = self.move_number
    /\ black_captures' = self.black_captures
    /\ white_captures' = self.white_captures
    /\ ret' = r
    /\ UNCHANGED size

AddStone ==
    \E stone \in ArgStones :
        LET r == add_stone(Self, stone) IN Return(r.self, r.ret)

\* When a computation of self.neighbors(key) overflows, the call either goes
\* on with the wrapped value or panics there, with the stone inserted and
\* nothing else done, as the build decides.
PlayStone ==
    \E stone \in ArgStones :
        LET r     == play_stone(Self, stone)
            added == add_stone(Self, stone)
        IN  \/ /\ \/ r.ret = InvalidMoveError
                  \/ /\ move_number < MaxMoveNumber
                     /\ r.self.black_captures + r.self.white_captures <= MaxCaptures
               /\ Return(r.self, r.ret)
            \/ /\ added.ret = Ok
               /\ neighbors_overflow(<<stone.x, stone.y>>)
               /\ Return(added.self, Panic)

ClearPoint == \E point \in ArgPoints : Return(clear_point(Self, point), Ok)

SetMoveNumber ==
    \E num \in 0..MaxMoveNumber : Return(set_move_number(Self, num), Ok)

Next == AddStone \/ PlayStone \/ ClearPoint \/ SetMoveNumber

Spec == Init /\ [][Next]_vars

\* Sequences in which no setup stone is added: played moves, cleared points
\* and counter resets only.
NextPlay == PlayStone \/ ClearPoint \/ SetMoveNumber

SpecPlay == Init /\ [][NextPlay]_vars

(***************************************************************************)
(* process_captures, one iteration of its loop at a time.  frame holds the *)
(* locals of the call in flight (group_color, group, to_process) and the   *)
(* number of pop_back calls that yielded a point so far.  The boards are   *)
(* those add_stone and clear_point set up.                                 *)
(***************************************************************************)
\* Lines 166-170: an unoccupied start point returns at once; otherwise the
\* locals are set up with the start point on the work list.
StartCaptures ==
    \E start_point \in ArgPoints :
        /\ ret # Panic
        /\ frame = Idle
        /\ start_point \in DOMAIN stones
        /\ black_captures + white_captures < MaxCaptures
        /\ frame' = [group_color |-> stones[start_point],
                     group       |-> {},
                     to_process  |-> <<start_point>>,
                     pops        |-> 0]
        /\ UNCHANGED <<size, stones, move_number, black_captures, white_captures, ret>>

\* Lines 170-187: one pop_back and the scan of the popped point's neighbours.
\* An empty neighbour returns from the call.  Where a computation of
\* neighbors overflows, the build either wraps or panics.
LoopIteration ==
    /\ frame # Idle
    /\ frame.to_process # << >>
    /\ LET it == Iterate(stones, frame.group_color, frame.group, frame.to_process)
       IN  \/ /\ frame' = IF it.liberty
                          THEN Idle
                          ELSE [frame EXCEPT !.group = it.group,
                                             !.to_process = it.to_process,
                                             !.pops = @ + 1]
              /\ UNCHANGED ret
           \/ /\ neighbors_overflow(it.popped)
              /\ frame' = Idle
              /\ ret' = Panic
    /\ UNCHANGED <<size, stones, move_number, black_captures, white_captures>>

\* Lines 188-194: the work list is empty; the group is tallied and removed.
RemoveGroup ==
    /\ frame # Idle
    /\ frame.to_process = << >>
    /\ black_captures' = IF frame.group_color = Black
                         THEN black_captures + Cardinality(frame.group)
                         ELSE black_captures
    /\ white_captures' = IF frame.group_color = White
                         THEN white_captures + Cardinality(frame.group)
                         ELSE white_captures
    /\ stones' = Remove(stones, frame.group)
    /\ frame' = Idle
    /\ UNCHANGED <<size, move_number, ret>>

NextLoop == AddStone \/ ClearPoint \/ StartCaptures \/ LoopIteration \/ RemoveGroup

\* The call runs on the caller's thread: an iteration that can run does run.
SpecLoop ==
    /\ Init
    /\ [][NextLoop]_vars
    /\ WF_vars(LoopIteration)
    /\ WF_vars(RemoveGroup)

(***************************************************************************)
(* The rules of the game, stated on the board alone: groups and liberties  *)
(* by orthogonal distance between points of the board.                     *)
(***************************************************************************)
Abs(n) == IF n < 0 THEN -n ELSE n

Adjacent(p, q) == Abs(p[1] - q[1]) + Abs(p[2] - q[2]) = 1

\* p is a point of the board.
OnBoard(p) == p[1] \in 0..(size[1] - 1) /\ p[2] \in 0..(size[2] - 1)

\* The stones of st that stand on the board.
OnBoardStones(st) == {q \in DOMAIN st : OnBoard(q)}

\* The four points at distance one from p, on the board or not.
Around(p) ==
    {<<p[1] + 1, p[2]>>, <<p[1] - 1, p[2]>>, <<p[1], p[2] + 1>>, <<p[1], p[2] - 1>>}

RECURSIVE Grow(_, _)
Grow(st, G) ==
    LET more == {q \in OnBoardStones(st) \ G :
                    \E m \in G : Adjacent(m, q) /\ st[q] = st[m]}
    IN  IF more = {} THEN G ELSE Grow(st, G \cup more)

\* The maximal connected same-colour set of stones that contains p.
GroupOf(st, p) == Grow(st, {p})

\* The empty points of the board next to a member of G.
Liberties(st, G) ==
    {q \in UNION {Around(m) : m \in G} : OnBoard(q) /\ q \notin DOMAIN st}

Tally(self, color) ==
    IF color = Black THEN self.black_captures ELSE self.white_captures

Point(stone) == <<stone.x, stone.y>>

\* The board with stone set on its point, before any capture is resolved.
Placed(stone) == Insert(stones, Point(stone), stone.color)

\* The group of the stone once it is placed, and that group's liberties.
OwnGroup(stone) == GroupOf(Placed(stone), Point(stone))

OwnLiberties(stone) == Liberties(Placed(stone), OwnGroup(stone))

\* The opposing stones whose group has the point of stone as its only liberty.
Doomed(stone) ==
    {q \in OnBoardStones(stones) :
        /\ stones[q] = opponent_color(stone.color)
        /\ Liberties(stones, GroupOf(stones, q)) = {Point(stone)}}

\* stone goes to an empty point of the board.
OnBoardEmpty(stone) ==
    /\ OnBoard(Point(stone))
    /\ Point(stone) \notin DOMAIN stones

\* The stones of the given colour that are in the current board and not in after.
Taken(after, color) ==
    {q \in DOMAIN stones : stones[q] = color /\ q \notin DOMAIN after.stones}

\* The counters of after are those of the current state.
SameCounters(after) ==
    /\ after.move_number = move_number
    /\ after.black_captures = black_captures
    /\ after.white_captures = white_captures

(***************************************************************************)
(* C1.  A successful play_stone of colour D at an empty point p of the     *)
(* board removes, within that one call, every opposing group whose only    *)
(* liberty was p and no other stone of that colour; the tally of the       *)
(* removed colour grows by exactly the number of stones removed (a group   *)
(* touching p at several neighbours is counted once), and the tally of D   *)
(* is unchanged whenever such a group is removed.                          *)
(***************************************************************************)
C1_CaptureSymmetry ==
    \A stone \in ArgStones :
        OnBoardEmpty(stone) =>
            LET r   == play_stone(Self, stone)
                opp == opponent_color(stone.color)
            IN  /\ r.ret = Ok
                /\ Taken(r.self, opp) = Doomed(stone)
                /\ Tally(r.self, opp) = Tally(Self, opp) + Cardinality(Doomed(stone))
                /\ Doomed(stone) # {} =>
                       Tally(r.self, stone.color) = Tally(Self, stone.color)

\* Black has played the corner of the 2x2 board and taken the three white
\* stones that touched the corner at both of its neighbours.
C1_Witness ==
    /\ size = <<2, 2>>
    /\ stones = (<<0, 0>> :> Black)
    /\ white_captures = 3
    /\ black_captures = 0
    /\ move_number = 1
    /\ ret = Ok

(***************************************************************************)
(* C2.  Self-capture ordering: when the played stone's group has no empty  *)
(* neighbour once it is placed, and the placement takes the last liberty   *)
(* of an opposing group, the opposing groups are removed, the played stone *)
(* stays at p with its colour, and the played colour's tally is unchanged. *)
(***************************************************************************)
C2_SelfCaptureOrdering ==
    \A stone \in ArgStones :
        (OnBoardEmpty(stone) /\ OwnLiberties(stone) = {} /\ Doomed(stone) # {}) =>
            LET r == play_stone(Self, stone)
            IN  /\ \A q \in Doomed(stone) : q \notin DOMAIN r.self.stones
                /\ Point(stone) \in DOMAIN r.self.stones
                /\ r.self.stones[Point(stone)] = stone.color
                /\ Tally(r.self, stone.color) = Tally(Self, stone.color)

\* White has filled the last point of the 2x2 board next to its own stone and
\* taken the two black stones; both white stones stand.
C2_Witness ==
    /\ size = <<2, 2>>
    /\ stones = (<<0, 0>> :> White @@ <<0, 1>> :> White)
    /\ black_captures = 2
    /\ white_captures = 0
    /\ move_number = 1
    /\ ret = Ok

(***************************************************************************)
(* C3.  True suicide: when the played stone's group has no liberty once it *)
(* is placed and no opposing group loses its last liberty, the call        *)
(* succeeds, the whole group of the played stone leaves the board, the     *)
(* played colour's tally grows by the size of that group, the other tally  *)
(* and every opposing stone are unchanged, and the move counter grows by   *)
(* one.                                                                    *)
(***************************************************************************)
C3_TrueSuicide ==
    \A stone \in ArgStones :
        (OnBoardEmpty(stone) /\ OwnLiberties(stone) = {} /\ Doomed(stone) = {}) =>
            LET r   == play_stone(Self, stone)
                opp == opponent_color(stone.color)
            IN  /\ r.ret = Ok
                /\ \A q \in OwnGroup(stone) : q \notin DOMAIN r.self.stones
                /\ Tally(r.self, stone.color) =
                       Tally(Self, stone.color) + Cardinality(OwnGroup(stone))
                /\ Tally(r.self, opp) = Tally(Self, opp)
                /\ \A q \in DOMAIN stones :
                       stones[q] = opp =>
                           q \in DOMAIN r.self.stones /\ r.self.stones[q] = opp
                /\ r.self.move_number = move_number + 1

\* Black has played the corner between two white stones that each keep a
\* liberty: the black stone is gone and counted in black_captures.
C3_Witness ==
    /\ size = <<2, 2>>
    /\ stones = (<<1, 0>> :> White @@ <<0, 1>> :> White)
    /\ black_captures = 1
    /\ white_captures = 0
    /\ move_number = 1
    /\ ret = Ok

(***************************************************************************)
(* C4.  Bounds rejection: add_stone and play_stone at a point with         *)
(* x >= width or y >= height fail with InvalidMoveError and leave the      *)
(* placement map, the move counter and both tallies unchanged.             *)
(***************************************************************************)
C4_BoundsRejection ==
    [][\A stone \in ArgStones :
          (stone.x >= size[1] \/ stone.y >= size[2]) =>
              LET added  == add_stone(Self, stone)
                  played == play_stone(Self, stone)
              IN  (Return(added.self, added.ret) \/ Return(played.self, played.ret))
                      => /\ ret' = InvalidMoveError
                         /\ UNCHANGED <<stones, move_number,
                                        black_captures, white_captures>>
      ]_vars

(***************************************************************************)
(* C5.  Occupied rejection is atomic: add_stone and play_stone at a point  *)
(* that already holds a stone of either colour fail with InvalidMoveError, *)
(* and the placement map (the colour of the stone there included), the     *)
(* move counter and both tallies are as before.                            *)
(***************************************************************************)
C5_OccupiedRejection ==
    \A stone \in ArgStones :
        Point(stone) \in DOMAIN stones =>
            /\ add_stone(Self, stone) = [ret |-> InvalidMoveError, self |-> Self]
            /\ play_stone(Self, stone) = [ret |-> InvalidMoveError, self |-> Self]

\* A placement has just been refused on a board that holds a stone, after a
\* played move: the stone, the counter and the tallies are in place.
C5_Witness ==
    /\ size = <<2, 1>>
    /\ stones = (<<0, 0>> :> White)
    /\ ret = InvalidMoveError
    /\ move_number = 1
    /\ black_captures = 0
    /\ white_captures = 0

(***************************************************************************)
(* C6.  No group of the board has zero liberties.  As claimed: in every    *)
(* state reachable by the four operations.  As amended: the empty board    *)
(* has no such group, and play_stone, clear_point and set_move_number, on  *)
(* any arguments, each lead from a board without such a group to a board   *)
(* without one; add_stone does not.                                        *)
(***************************************************************************)
NoDeadGroup(st) ==
    \A q \in OnBoardStones(st) : Liberties(st, GroupOf(st, q)) # {}

C6_NoDeadGroupEver == NoDeadGroup(stones)

C6_NoDeadGroupKept ==
    /\ stones = << >> => NoDeadGroup(stones)
    /\ NoDeadGroup(stones) =>
          /\ \A stone \in ArgStones :
                NoDeadGroup(play_stone(Self, stone).self.stones)
          /\ \A point \in ArgPoints :
                NoDeadGroup(clear_point(Self, point).stones)
          /\ \A num \in 0..MaxMoveNumber :
                NoDeadGroup(set_move_number(Self, num).stones)

\* Black has taken the white corner stone with its second stone: the capture
\* is what leaves the 2x2 board without a dead group.
C6_Witness ==
    /\ size = <<2, 2>>
    /\ stones = (<<1, 0>> :> Black @@ <<0, 1>> :> Black)
    /\ NoDeadGroup(stones)
    /\ white_captures = 1
    /\ black_captures = 0
    /\ move_number = 1
    /\ ret = Ok

(***************************************************************************)
(* C7.  Every key (x, y) of the placement map satisfies 0 <= x < width and *)
(* 0 <= y < height.                                                        *)
(***************************************************************************)
C7_KeysOnBoard == \A q \in DOMAIN stones : OnBoard(q)

(***************************************************************************)
(* C8.  Counter independence: a successful play_stone (one that captures   *)
(* or is self-captured included) raises the move counter by exactly one, a *)
(* failed one leaves it alone, and add_stone and clear_point never change  *)
(* it, so it changes through play_stone and set_move_number only.          *)
(***************************************************************************)
C8_CounterIndependence ==
    /\ \A stone \in ArgStones :
          LET played == play_stone(Self, stone)
          IN  /\ played.ret = Ok => played.self.move_number = move_number + 1
              /\ played.ret = InvalidMoveError => played.self.move_number = move_number
              /\ add_stone(Self, stone).self.move_number = move_number
    /\ \A point \in ArgPoints : clear_point(Self, point).move_number = move_number

\* A self-captured move on the 1x1 board was counted, and a setup stone added
\* after it was not.
C8_Witness ==
    /\ size = <<1, 1>>
    /\ stones = (<<0, 0>> :> White)
    /\ black_captures = 1
    /\ white_captures = 0
    /\ move_number = 1
    /\ ret = Ok

(***************************************************************************)
(* C9.  A successful add_stone at an empty point p of the board changes    *)
(* the occupancy of p and nothing else: every other point, the move        *)
(* counter and both tallies are unchanged, also when the new stone takes   *)
(* the last liberty of a neighbouring group or has no liberty itself.      *)
(***************************************************************************)
C9_SetupFrame ==
    \A stone \in ArgStones :
        OnBoardEmpty(stone) =>
            LET added == add_stone(Self, stone)
            IN  /\ added.ret = Ok
                /\ DOMAIN added.self.stones = DOMAIN stones \cup {Point(stone)}
                /\ added.self.stones[Point(stone)] = stone.color
                /\ \A q \in DOMAIN stones : added.self.stones[q] = stones[q]
                /\ SameCounters(added.self)

\* Setup stones alone have filled the 2x2 board with a black stone that has
\* no liberty and white stones that have none: nothing was removed or counted.
C9_Witness ==
    /\ size = <<2, 2>>
    /\ stones = (<<0, 0>> :> Black @@ <<1, 0>> :> White
                 @@ <<0, 1>> :> White @@ <<1, 1>> :> White)
    /\ black_captures = 0
    /\ white_captures = 0
    /\ move_number = 0
    /\ ret = Ok

(***************************************************************************)
(* C10.  clear_point(p) never fails; afterwards p is empty, every other    *)
(* point is unchanged, and the move counter and both tallies are           *)
(* unchanged; when p is already empty the whole state is unchanged, and a  *)
(* second clear_point(p) changes nothing.                                  *)
(***************************************************************************)
C10_ClearFrame ==
    \A point \in ArgPoints :
        LET cleared == clear_point(Self, point)
        IN  /\ DOMAIN cleared.stones = DOMAIN stones \ {point}
            /\ \A q \in DOMAIN cleared.stones : cleared.stones[q] = stones[q]
            /\ SameCounters(cleared)
            /\ point \notin DOMAIN stones => cleared = Self
            /\ clear_point(cleared, point) = cleared

\* The last stone of a 2x2 board that saw a capture has been cleared: the
\* board is empty and the tallies still read one captured white stone.
C10_Witness ==
    /\ size = <<2, 2>>
    /\ stones = << >>
    /\ white_captures = 1
    /\ black_captures = 0
    /\ move_number = 1
    /\ ret = Ok

(***************************************************************************)
(* C11.  No call lowers black_captures or white_captures, and no call      *)
(* other than set_move_number lowers the move counter; set_move_number(n)  *)
(* sets the counter to n and leaves the placement map and both tallies     *)
(* unchanged.                                                              *)
(***************************************************************************)
\* after has counters at least those of the current state.
NoCounterLower(after) ==
    /\ after.black_captures >= black_captures
    /\ after.white_captures >= white_captures
    /\ after.move_number >= move_number

C11_Monotonic ==
    /\ \A stone \in ArgStones :
          /\ NoCounterLower(play_stone(Self, stone).self)
          /\ NoCounterLower(add_stone(Self, stone).self)
    /\ \A point \in ArgPoints : NoCounterLower(clear_point(Self, point))
    /\ \A num \in 0..MaxMoveNumber :
          LET reset == set_move_number(Self, num)
          IN  /\ reset.move_number = num
              /\ reset.stones = stones
              /\ reset.black_captures = black_captures
              /\ reset.white_captures = white_captures

\* After two self-captured black moves on the 1x1 board the counter was set
\* back to 0: the tally kept both captures.
C11_Witness ==
    /\ size = <<1, 1>>
    /\ stones = << >>
    /\ black_captures = 2
    /\ white_captures = 0
    /\ move_number = 0
    /\ ret = Ok

(***************************************************************************)
(* C12.  hoshi_points depends on the board's dimensions alone: on 13x13 it *)
(* yields exactly (3,3), (3,9), (6,6), (9,3), (9,9); on 9x9 exactly four   *)
(* points and on 19x19 exactly nine; on every other width and height       *)
(* (10x10 and 9x13 among them) nothing; every point it yields is a point   *)
(* of the board; and no stone operation changes what it yields.            *)
(***************************************************************************)
Range(seq) == {seq[i] : i \in 1..Len(seq)}

HoshiTable ==
    /\ size = <<13, 13>> =>
          /\ Range(hoshi_points) = {<<3, 3>>, <<3, 9>>, <<6, 6>>, <<9, 3>>, <<9, 9>>}
          /\ Len(hoshi_points) = 5
    /\ size = <<9, 9>> =>
          /\ Cardinality(Range(hoshi_points)) = 4
          /\ Len(hoshi_points) = 4
    /\ size = <<19, 19>> =>
          /\ Cardinality(Range(hoshi_points)) = 9
          /\ Len(hoshi_points) = 9
    /\ size \notin {<<9, 9>>, <<13, 13>>, <<19, 19>>} => hoshi_points = << >>
    /\ \A q \in Range(hoshi_points) : OnBoard(q)

C12_HoshiBySize == [](HoshiTable) /\ [][hoshi_points' = hoshi_points]_vars

\* A black stone has been played on the star point (3, 3) of the 13x13 board,
\* which still has its five star points.
C12_Witness ==
    /\ size = <<13, 13>>
    /\ stones = (<<3, 3>> :> Black)
    /\ move_number = 1
    /\ Len(hoshi_points) = 5
    /\ <<3, 3>> \in Range(hoshi_points)

(***************************************************************************)
(* C13.  play_stone preserves the absence of dead groups: when every group *)
(* of the board has a liberty before a play_stone, every group has one     *)
(* after it.  Hence no sequence of play_stone calls from the empty board   *)
(* (with clear_point and set_move_number calls in between, and no          *)
(* add_stone) reaches a board on which a group has no liberty.             *)
(***************************************************************************)
C13_PlayedBoardsAlive ==
    /\ NoDeadGroup(stones)
    /\ \A stone \in ArgStones :
          NoDeadGroup(play_stone(Self, stone).self.stones)

\* From the empty 2x2 board, by played moves alone: Black holds one diagonal
\* and has taken the two white stones of the other with one move.
C13_Witness ==
    /\ size = <<2, 2>>
    /\ stones = (<<0, 0>> :> Black @@ <<1, 1>> :> Black)
    /\ white_captures = 2
    /\ black_captures = 0
    /\ move_number = 1
    /\ ret = Ok

(***************************************************************************)
(* C14.  Stone conservation.  For each colour C, the number of C stones in *)
(* the map plus the tally of C grows by one with every successful          *)
(* placement of a C stone (add_stone or play_stone), falls by one with     *)
(* every clear_point that removes a C stone, and is changed by nothing     *)
(* else; so at all times stones in the map + tally + stones cleared =      *)
(* successful placements.  Every stone a play_stone removes is counted     *)
(* once, in the tally of its own colour, and one play_stone changes at     *)
(* most one of the two tallies.                                            *)
(***************************************************************************)
Count(st, color) == Cardinality({q \in DOMAIN st : st[q] = color})

\* Stones in the map plus captured stones, per colour.
Stock(self, color) == Count(self.stones, color) + Tally(self, color)

C14_StoneConservation ==
    /\ \A stone \in ArgStones :
          LET played == play_stone(Self, stone)
              added  == add_stone(Self, stone)
              own    == stone.color
              opp    == opponent_color(stone.color)
          IN  /\ played.ret = Ok =>
                    /\ Stock(played.self, own) = Stock(Self, own) + 1
                    /\ Stock(played.self, opp) = Stock(Self, opp)
                    /\ Tally(played.self, opp) =
                           Tally(Self, opp) + Cardinality(Taken(played.self, opp))
                    /\ \/ played.self.black_captures = black_captures
                       \/ played.self.white_captures = white_captures
              /\ played.ret = InvalidMoveError => played.self = Self
              /\ added.ret = Ok =>
                    /\ Count(added.self.stones, own) = Count(stones, own) + 1
                    /\ Count(added.self.stones, opp) = Count(stones, opp)
                    /\ SameCounters(added.self)
              /\ added.ret = InvalidMoveError => added.self = Self
    /\ \A point \in ArgPoints :
          LET cleared == clear_point(Self, point)
          IN  /\ SameCounters(cleared)
              /\ \A color \in StoneColor :
                    Count(cleared.stones, color) =
                        Count(stones, color)
                          - (IF point \in DOMAIN stones /\ stones[point] = color
                             THEN 1 ELSE 0)
    /\ \A num \in 0..MaxMoveNumber :
          \A color \in StoneColor :
              Stock(set_move_number(Self, num), color) = Stock(Self, color)

\* Black has played the second point of the 2x1 board and taken the white
\* setup stone: one white stone placed, one in White's tally.
C14_Witness ==
    /\ size = <<2, 1>>
    /\ stones = (<<1, 0>> :> Black)
    /\ white_captures = 1
    /\ black_captures = 0
    /\ move_number = 1
    /\ ret = Ok

(***************************************************************************)
(* C15.  process_captures(start) decides by the whole group.  For every    *)
(* board and every occupied point start of the board: the maximal          *)
(* same-colour group containing start is removed, and its size added to    *)
(* its colour's tally, if and only if no member of the group has an empty  *)
(* neighbour on the board; if some member has one, the map and both        *)
(* tallies are unchanged.  For an unoccupied start nothing changes.        *)
(***************************************************************************)
C15_WholeGroupDecides ==
    \A start \in ArgPoints :
        LET after == process_captures(Self, start)
        IN  /\ start \notin DOMAIN stones => after = Self
            /\ (start \in DOMAIN stones /\ OnBoard(start)) =>
                  LET G     == GroupOf(stones, start)
                      color == stones[start]
                  IN  IF Liberties(stones, G) = {}
                      THEN /\ after.stones = Remove(stones, G)
                           /\ Tally(after, color) = Tally(Self, color) + Cardinality(G)
                           /\ Tally(after, opponent_color(color)) =
                                  Tally(Self, opponent_color(color))
                           /\ after.move_number = move_number
                      ELSE after = Self

\* Black has played (1,0) on the 2x2 board next to the white stone at (0,0),
\* which has no empty neighbour of its own left; the white group lives by the
\* liberty of its other stone, and play_stone's process_captures((0,0)) left
\* the board as it was.
C15_Witness ==
    /\ size = <<2, 2>>
    /\ stones = (<<0, 0>> :> White @@ <<0, 1>> :> White @@ <<1, 0>> :> Black)
    /\ move_number = 1
    /\ black_captures = 0
    /\ white_captures = 0
    /\ Liberties(stones, {<<0, 0>>}) = {}
    /\ process_captures(Self, <<0, 0>>) = Self

(***************************************************************************)
(* C16.  process_captures is idempotent: for every board and every point   *)
(* p, applying process_captures(p) twice in a row leaves the map and the   *)
(* tallies as applying it once does.                                       *)
(***************************************************************************)
C16_Idempotent ==
    \A p \in ArgPoints :
        process_captures(process_captures(Self, p), p) = process_captures(Self, p)

\* White has played (0,1) on the 1x2 board; process_captures((0,0)) took the
\* black stone there, and applied again to the board it left it does nothing.
C16_Witness ==
    /\ size = <<1, 2>>
    /\ stones = (<<0, 1>> :> White)
    /\ black_captures = 1
    /\ white_captures = 0
    /\ move_number = 1
    /\ <<0, 0>> \notin DOMAIN stones
    /\ process_captures(Self, <<0, 0>>) = Self

(***************************************************************************)
(* C17.  The work-list traversal of process_captures takes every point of  *)
(* the group from the work list exactly once: no iteration pops a point    *)
(* that an earlier iteration of the same call has popped (and inserted     *)
(* into the group set), whatever the shape of the group, a 2x2 block       *)
(* included.                                                               *)
(***************************************************************************)
C17_PoppedOnce ==
    [][(frame # Idle /\ frame.to_process # << >>) =>
          frame.to_process[Len(frame.to_process)] \notin frame.group]_vars

(***************************************************************************)
(* C18.  neighbors never fails: for every board size a u8 pair holds, a    *)
(* dimension of 0, 1 or 255 included, and every point on which play_stone  *)
(* or process_captures calls it, the u8 computations size - 1, x + 1 and   *)
(* y + 1 stay within 0..255, so the call neither panics nor wraps.         *)
(***************************************************************************)
C18_NeighborsNeverFails ==
    [][/\ ret' # Panic
       /\ \A stone \in ArgStones :
             LET played == play_stone(Self, stone)
             IN  (played.ret = Ok /\ Return(played.self, played.ret)) =>
                     ~neighbors_overflow(Point(stone))]_vars

(***************************************************************************)
(* C19.  On a board of width and height at least 1, for every point p of   *)
(* the board, neighbors(p) yields exactly the points of the board at       *)
(* distance one from p, each once: at most four, two at a corner and three *)
(* on an edge of a board at least 2 wide and high, never p itself and      *)
(* never a point outside the board; and q is among neighbors(p) exactly    *)
(* when p is among neighbors(q).  neighbors reads the size alone.          *)
(***************************************************************************)
\* The number of coordinates of p that lie on the rim of the board.
RimCoordinates(p) ==
    (IF p[1] \in {0, size[1] - 1} THEN 1 ELSE 0)
      + (IF p[2] \in {0, size[2] - 1} THEN 1 ELSE 0)

C19_NeighborsExact ==
    (size[1] >= 1 /\ size[2] >= 1) =>
        \A p \in ArgPoints :
            OnBoard(p) =>
                LET n == neighbors(p)
                    N == Range(n)
                IN  /\ N = {q \in Around(p) : OnBoard(q)}
                    /\ Len(n) = Cardinality(N)
                    /\ Len(n) <= 4
                    /\ p \notin N
                    /\ (size[1] >= 2 /\ size[2] >= 2 /\ RimCoordinates(p) = 2) =>
                           Len(n) = 2
                    /\ (size[1] >= 3 /\ size[2] >= 3 /\ RimCoordinates(p) = 1) =>
                           Len(n) = 3
                    /\ \A q \in Around(p) :
                           OnBoard(q) => (q \in N <=> p \in Range(neighbors(q)))

\* White has played the edge point (0,1) of the 13x13 board: play_stone asked
\* for its neighbours, which are the three points of the board next to it.
C19_Witness ==
    /\ size = <<13, 13>>
    /\ stones = (<<0, 1>> :> White)
    /\ move_number = 1
    /\ Range(neighbors(<<0, 1>>)) = {<<1, 1>>, <<0, 2>>, <<0, 0>>}

(***************************************************************************)
(* C20.  process_captures terminates on every board: once a call is in     *)
(* flight, its loop empties the work list or returns early (or, on a board *)
(* with a zero dimension and a build with overflow checks, panics), and    *)
(* the call ends.  No point that is in the group set is pushed again, so   *)
(* the number of pops stays within four times the size of the group set.   *)
(***************************************************************************)
PopsBounded ==
    frame # Idle => frame.pops <= 4 * Cardinality(frame.group)

\* The points an iteration pushes are outside the group set it leaves.
PushesOutsideGroup ==
    (frame # Idle /\ frame' # Idle /\ frame' # frame) =>
        \A i \in Len(frame.to_process)..Len(frame'.to_process) :
            frame'.to_process[i] \notin frame'.group

C20_Terminates ==
    /\ [](PopsBounded)
    /\ [][PushesOutsideGroup]_vars
    /\ (frame # Idle) ~> (frame = Idle)

\* On the 2x2 board filled with black stones a call has popped all four
\* points, one of them twice, and its work list is empty: the group is about
\* to be removed.
C20_Witness ==
    /\ size = <<2, 2>>
    /\ frame # Idle
    /\ frame.to_process = << >>
    /\ Cardinality(frame.group) = 4
    /\ frame.pops = 5



====
